---- MODULE Spec2Model ----
(***************************************************************************)
(* Conversation lifecycle and generation-retry engine of the Discord bot   *)
(* (src/src/conversation/conversation.ts), as a state machine.             *)
(*                                                                         *)
(* One user (one conversation id) is followed on every worker process of   *)
(* the cluster.  Each `await` of the source is a suspension point: the     *)
(* code between two awaits is one atomic action.  An awaited call to an    *)
(* external collaborator (transport, moderation check, durable store,      *)
(* cluster broadcast) is issued by the action that reaches it and its      *)
(* result (or its failure) is consumed by the next action of the same      *)
(* invocation.  A durable-store request carries the value computed when    *)
(* it was issued and takes effect when it completes.                       *)
(***************************************************************************)
EXTENDS Integers, Sequences, FiniteSets, TLC

(* ------------------------------------------------------------------ *)
(* Program constants                                                   *)
(* ------------------------------------------------------------------ *)

RetryMaxTriesOffByOne == 10 + 1

CONVERSATION_ERROR_RETRY_MAX_TRIES == 10


(* ------------------------------------------------------------------ *)
(* Bounds of the model                                                 *)
(* ------------------------------------------------------------------ *)

\* generate() invocations that pass the entry checks, per conversation instance
MaxGenerations == 2

\* the worker processes of the cluster, by their cluster id
Workers == {1, 2}

\* the accepted generate() invocations of a conversation, in order of entry
Calls == 1..MaxGenerations

\* a null handle / null verdict / absent value
NULL == 0

(* ------------------------------------------------------------------ *)
(* Errors the generation transport can raise                           *)
(* ------------------------------------------------------------------ *)

NoError == [cls |-> "none", id |-> "-", type |-> "-", cause |-> "-", server |-> FALSE]

ApiError(id, server) ==
    [cls |-> "API", id |-> id, type |-> "-", cause |-> "-", server |-> server]

GenError(type, cause) ==
    [cls |-> "Gen", id |-> "-", type |-> type, cause |-> cause, server |-> FALSE]

TypeErr == [cls |-> "TypeError", id |-> "-", type |-> "-", cause |-> "-", server |-> FALSE]

UnknownErr == [cls |-> "Unknown", id |-> "-", type |-> "-", cause |-> "-", server |-> FALSE]

\* new Error("Conversation is inactive") / new Error("What.")
PlainError(msg) ==
    [cls |-> "Error", id |-> msg, type |-> "-", cause |-> "-", server |-> FALSE]

\* a failure of an awaited collaborator other than the transport
ExternalError(what) ==
    [cls |-> "External", id |-> what, type |-> "-", cause |-> "-", server |-> FALSE]

ApiIds == {"insufficient_quota", "access_terminated", "requests",
           "invalid_request_error", "server_error"}

GenTypes == {"SessionUnusable", "Empty", "Length", "Other"}

\* every error class the retry loop tells apart
AllTransportErrors ==
    {ApiError(i, s) : i \in ApiIds, s \in BOOLEAN}
      \cup {GenError(t, c) : t \in GenTypes, c \in {"none", "api", "other"}}
      \cup {TypeErr, UnknownErr}

(* ------------------------------------------------------------------ *)
(* The retry policy of generate(), lines 306-360                       *)
(* ------------------------------------------------------------------ *)

IsSessionUnusable(e) ==
    \/ e.cls = "API" /\ e.id \in {"insufficient_quota", "access_terminated"}
    \/ e.cls = "Gen" /\ e.type = "SessionUnusable"

IsRateLimited(e) ==
    \/ e.cls = "API" /\ e.id \in {"requests", "invalid_request_error"}
    \/ e.cls = "TypeError"

IsThrowThroughCauseOnly(e) ==
    e.cls = "Gen" /\ e.cause # "none" /\ e.cause # "api"

IsThrowThrough(e) ==
    \/ e.cls = "Gen" /\ e.cause # "none" /\ e.cause # "api"
    \/ e.cls = "API" /\ ~e.server

IsEmptyOnly(e) ==
    e.cls = "Gen" /\ e.type \in {"Empty"}

IsEmptyOrLength(e) ==
    e.cls = "Gen" /\ e.type \in {"Empty", "Length"}

\* tries++
NextTries(t) == t + 1

BackoffSecondsFlat(t) == t * 5

\* ((tries * 5) + 5) seconds
BackoffSeconds(t) == (t * 5) + 5

\* the branch the catch block takes for error e once tries has become t
ClassifyBackoffFirst(e, t) ==
    IF IsSessionUnusable(e) THEN "unusable"
    ELSE IF IsRateLimited(e) THEN "backoff"
    ELSE IF t = CONVERSATION_ERROR_RETRY_MAX_TRIES THEN "exhausted"
    ELSE IF IsThrowThrough(e) THEN "through"
    ELSE IF IsEmptyOrLength(e) THEN "through"
    ELSE "retry"

Classify(e, t) ==
    IF t = CONVERSATION_ERROR_RETRY_MAX_TRIES THEN "exhausted"
    ELSE IF IsSessionUnusable(e) THEN "unusable"
    ELSE IF IsRateLimited(e) THEN "backoff"
    ELSE IF IsThrowThrough(e) THEN "through"
    ELSE IF IsEmptyOrLength(e) THEN "through"
    ELSE "retry"

ExhaustedAlwaysWraps(e) == GenError("Other", "other")

\* the error thrown when the retries are exhausted
ExhaustedError(e) ==
    IF e.cls \in {"Gen", "API"} THEN e ELSE GenError("Other", "other")

\* while (tries < MAX && data === null && this.generating)
LoopContinues(t, hasData, gen) ==
    t < CONVERSATION_ERROR_RETRY_MAX_TRIES /\ ~hasData /\ gen

(* ------------------------------------------------------------------ *)
(* History entries, their broadcast form and their durable form        *)
(* ------------------------------------------------------------------ *)

\* the output id of the n-th generation accepted by worker w
GenId(w, n) == (10 * w) + n

AllIds == {GenId(w, n) : w \in Workers, n \in 1..MaxGenerations}

\* an in-memory image payload (a buffer) and its textual encoding
ImageOf(id) == [enc |-> "buffer", data |-> id]

NoData == [input |-> NULL, output |-> [id |-> NULL, images |-> <<>>]]

\* what the transport can answer to the generation with output id `id`
TransportResults(id, imageSets) ==
    {[input |-> id, output |-> [id |-> id, images |-> imgs]] : imgs \in imageSets}

\* const result: ChatInteraction = { input, output, trigger, reply: null, moderation, time }
Interaction(data, trigger, moderation, time) ==
    [input |-> data.input, output |-> data.output, trigger |-> trigger,
     reply |-> NULL, moderation |-> moderation, time |-> time]

\* ImageBuffer.toString(): the textual encoding of a buffer
ImageToString(image) == [enc |-> "string", data |-> image.data]

\* ImageBuffer.load(): the buffer a textual encoding stands for
ImageBufferLoad(image) == [enc |-> "buffer", data |-> image.data]

\* images.map(i => ({ ...i, data: i.data.toString() }))
ResponseMessageToDatabase(message) ==
    [message EXCEPT !.images =
        [i \in DOMAIN message.images |-> ImageToString(message.images[i])]]

DatabaseKeepsEncoding(message) == message

\* images.map(i => ({ ...i, data: ImageBuffer.load(i.data) }))
DatabaseToResponseMessage(message) ==
    [message EXCEPT !.images =
        [i \in DOMAIN message.images |-> ImageBufferLoad(message.images[i])]]

\* this.history.map(entry => ({ id: entry.output.id, input: entry.input, output: ... }))
Reduced(h) ==
    [i \in DOMAIN h |->
        [id |-> h[i].output.id, input |-> h[i].input,
         output |-> ResponseMessageToDatabase(h[i].output)]]

\* loadFromDatabase(): the entries pushed for the persisted list l at time now
LoadFromDatabase(l, now) ==
    [i \in DOMAIN l |->
        [input |-> l[i].input, output |-> DatabaseToResponseMessage(l[i].output),
         trigger |-> NULL, reply |-> NULL, moderation |-> NULL, time |-> now]]

\* this.history.map(e => ({ ...e, trigger: null, reply: null }))
StrippedKeepsHandles(h) == h

Stripped(h) ==
    [i \in DOMAIN h |-> [h[i] EXCEPT !.trigger = NULL, !.reply = NULL]]

(* ------------------------------------------------------------------ *)
(* The durable conversation row                                        *)
(* ------------------------------------------------------------------ *)

NoRow == [present |-> FALSE, hnull |-> TRUE, history |-> <<>>]

\* a row whose history field is null
RowNull == [present |-> TRUE, hnull |-> TRUE, history |-> <<>>]

\* a row whose history field is the list h
RowWith(h) == [present |-> TRUE, hnull |-> FALSE, history |-> h]

(* ------------------------------------------------------------------ *)
(* Cooldown                                                            *)
(* ------------------------------------------------------------------ *)

\* CONVERSATION_DEFAULT_COOLDOWN.time
DefaultCooldownTime == 110 * 1000

\* CONVERSATION_COOLDOWN_MODIFIER, in hundredths
CooldownModifier(tier) ==
    CASE tier = "Free" -> 100
      [] tier = "Voter" -> 50
      [] tier = "GuildPremium" -> 15
      [] tier = "UserPremium" -> 9

\* Math.round of the non-negative rational n / d, d even
RoundDiv(n, d) == (n + (d \div 2)) \div d

\* a model's options: cooldown.time (0: none), cooldown.multiplier in
\* tenths (0: none), restricted === PremiumOnly
ModelOptions(time, multiplier, premiumOnly) ==
    [time |-> time, multiplier |-> multiplier, premiumOnly |-> premiumOnly]

\* a model without cooldown options
DefaultModel == ModelOptions(0, 0, FALSE)

\* the keys of CONVERSATION_COOLDOWN_MODIFIER, lowest subscription first
Tiers == <<"Free", "Voter", "GuildPremium", "UserPremium">>

cooldownTimeIgnoresOverride(tier, model) ==
    LET toneModifier == IF model.multiplier # 0 THEN model.multiplier ELSE 10
    IN  RoundDiv(DefaultCooldownTime * CooldownModifier(tier) * toneModifier, 100 * 10)

cooldownTime(tier, model) ==
    LET override == model.time # 0 /\ model.premiumOnly
        baseModifier == IF override THEN 100 ELSE CooldownModifier(tier)
        toneModifier == IF model.multiplier # 0 THEN model.multiplier ELSE 10
        baseDuration == IF override THEN model.time ELSE DefaultCooldownTime
    IN  RoundDiv(baseDuration * baseModifier * toneModifier, 100 * 10)

NoCooldown == [armed |-> FALSE, expiresIn |-> 0]

\* Cooldown.use(duration)
CooldownUse(duration) == [armed |-> TRUE, expiresIn |-> duration]

(* ------------------------------------------------------------------ *)
(* State                                                               *)
(* ------------------------------------------------------------------ *)

VARIABLES
    active,      \* [Workers -> BOOLEAN]            Conversation.active
    generating,  \* [Workers -> BOOLEAN]            Conversation.generating
    history,     \* [Workers -> Seq(Interaction)]   Conversation.history
    timer,       \* [Workers -> "null" | "pending" | "cleared"]  the idle timer handle
    cooldown,    \* [Workers -> cooldown state]     Conversation.cooldown
    row,         \* the durable conversation row of the user
    audit,       \* [AllIds -> Nat]  entries of the durable audit log, per output id
    msgs,        \* history broadcasts in flight
    calls,       \* [Workers -> [Calls -> accepted invocation of generate()]]
    rejected,    \* [Workers -> outcome of the last entry check of generate()]
    resets,      \* [Workers -> invocation of reset()]
    inits,       \* [Workers -> invocation of init()]
    started,     \* [Workers -> Nat]  generate() invocations accepted so far
    live,        \* [Workers -> BOOLEAN]  the worker's Manager holds the conversation
    clusters,    \* the worker processes the cluster is running
    dev,         \* bot.dev
    owner,       \* the user is on the owner allow-list
    loads,       \* [Workers -> invocation of loadIfNotActive()]
    deleted,     \* [Workers -> Nat]  Manager.delete() calls of the idle timer
    timeouts,    \* [Workers -> Nat]  timeouts scheduled, neither cleared nor fired
    subscriptionType,  \* the user's subscription, db.users.subscriptionType(db)
    chatModel,         \* options of the chat model in use, model.options
    summarizer,        \* an invocation of SummarizeCommand.buildSummarizerPrompt
    settings           \* an invocation of SettingsCommand.run and the stored settings

vars == <<active, generating, history, timer, timeouts, cooldown, row, audit, msgs,
          calls, rejected, resets, inits, started, live, clusters, dev, owner,
                   loads, deleted,
                   subscriptionType, chatModel,
                   summarizer, settings>>

IdleCall ==
    [pc |-> "idle", id |-> NULL, tries |-> 0, sent |-> 0, err |-> NoError,
     delay |-> 0, waited |-> 0, notices |-> 0, data |-> NoData,
     pending |-> <<>>, thrown |-> NoError, ret |-> 0,
     len0 |-> 0, pushed |-> FALSE, persisted |-> FALSE,
     armed |-> FALSE]

Settled == {"idle", "returned", "thrown"}

\* loadIfNotActive(): where it is suspended, and how its last invocation ended
IdleLoad == [pc |-> "idle", out |-> "none"]

InFlight(w, c) == calls[w][c].pc \notin Settled

\* the state after Manager.create(user) on the workers of `holders`, the
\* cluster running the workers of `running`, the bot
\* running with bot.dev in `devs` and the user's allow-list membership in `owners`
\* no prompt is being built
NoSummary ==
    [pc |-> "idle", system |-> 0, initial |-> <<>>, subtitles |-> <<>>,
     steps |-> 0, tokens |-> 0, messages |-> <<>>, error |-> NoError]

\* /settings has not been run
NoSettingsRun ==
    [pc |-> "idle", premium |-> FALSE, given |-> <<>>, before |-> <<>>,
     stored |-> <<>>, applied |-> <<>>, response |-> "none"]

InitWith(running, holders, devs, owners) ==
    /\ clusters = running
    /\ live = [w \in Workers |-> w \in holders]
    /\ active = [w \in Workers |-> FALSE]
    /\ generating = [w \in Workers |-> FALSE]
    /\ history = [w \in Workers |-> <<>>]
    /\ timer = [w \in Workers |-> "null"]
    /\ cooldown = [w \in Workers |-> NoCooldown]
    /\ timeouts = [w \in Workers |-> IF timer[w] = "pending" THEN 1 ELSE 0]
    /\ row = NoRow
    /\ audit = [i \in AllIds |-> 0]
    /\ msgs = {}
    /\ calls = [w \in Workers |-> [c \in Calls |-> IdleCall]]
    /\ rejected = [w \in Workers |-> NoError]
    /\ resets = [w \in Workers |-> "idle"]
    /\ inits = [w \in Workers |-> "idle"]
    /\ started = [w \in Workers |-> 0]
    /\ dev \in devs
    /\ owner \in owners
    /\ loads = [w \in Workers |-> IdleLoad]
    /\ deleted = [w \in Workers |-> 0]
    /\ subscriptionType = "Free"
    /\ chatModel = DefaultModel
    /\ summarizer = NoSummary
    /\ settings = NoSettingsRun

(* ------------------------------------------------------------------ *)
(* Helpers of the actions                                              *)
(* ------------------------------------------------------------------ *)

\* applyResetTimer(): clear the previous handle, arm a new single-shot timer
ApplyResetTimerKeepsHandle(t) == t

ApplyResetTimer(t) == "pending"

\* if (this.timer !== null) clearTimeout(this.timer): the handle is kept
ClearTimer(t) == IF t = "null" THEN "null" ELSE "cleared"

\* the timeouts still scheduled after clearTimeout() on the handle t, when n
\* were scheduled: only a handle whose timeout is still to fire cancels one
Cancelled(t, n) == IF t = "pending" THEN n - 1 ELSE n

RearmedWithoutCancel(t, n) == n + 1

\* the timeouts still scheduled after applyResetTimer(): the handle, unless
\* null, is cleared, and one timeout is scheduled
Rearmed(t, n) == (IF t # "null" THEN Cancelled(t, n) ELSE n) + 1

\* the locals of a settled invocation are gone; its outcome is kept
Settle(call) == [call EXCEPT !.data = NoData, !.pending = <<>>, !.len0 = 0]

\* the invocation ends by throwing e
Throw(call, e) == [Settle(call) EXCEPT !.pc = "thrown", !.thrown = e]

(* ------------------------------------------------------------------ *)
(* generate(), lines 281-432                                           *)
(* ------------------------------------------------------------------ *)

GenRejectLocksFirst(w) ==
    /\ ~active[w] \/ generating[w]
    /\ generating' = [generating EXCEPT ![w] = TRUE]
    /\ rejected' = [rejected EXCEPT ![w] =
           IF ~active[w] THEN PlainError("Conversation is inactive")
           ELSE GenError("Busy", "none")]
    /\ UNCHANGED <<active, history, timer, timeouts, cooldown, row, audit, msgs,
                   calls, resets, inits, started, live, clusters, dev, owner,
                   loads, deleted,
                   subscriptionType, chatModel,
                   summarizer, settings>>

\* lines 282-283: an entry check fails; generate() throws at once
GenReject(w) ==
    /\ ~active[w] \/ generating[w]
    /\ rejected' = [rejected EXCEPT ![w] =
           IF ~active[w] THEN PlainError("Conversation is inactive")
           ELSE GenError("Busy", "none")]
    /\ UNCHANGED <<active, generating, history, timer, timeouts, cooldown, row, audit, msgs,
                   calls, resets, inits, started, live, clusters, dev, owner,
                   loads, deleted,
                   subscriptionType, chatModel,
                   summarizer, settings>>

\* lines 282-304: the entry checks pass; the lock is taken, the idle timer
\* cleared and the transport called for the first time
GenStart(w, c) ==
    /\ active[w] /\ ~generating[w]
    /\ c = started[w] + 1
    /\ started' = [started EXCEPT ![w] = c]
    /\ rejected' = [rejected EXCEPT ![w] = NoError]
    /\ generating' = [generating EXCEPT ![w] = TRUE]
    /\ timer' = [timer EXCEPT ![w] = ClearTimer(@)]
    /\ timeouts' = [timeouts EXCEPT ![w] = Cancelled(timer[w], @)]
    /\ calls' = [calls EXCEPT ![w][c] =
           [IdleCall EXCEPT !.pc = "transport", !.id = GenId(w, c),
                            !.sent = 1, !.len0 = Len(history[w])]]
    /\ UNCHANGED <<active, history, cooldown, row, audit, msgs, resets, inits,
                   live, clusters, dev, owner,
                   loads, deleted,
                   subscriptionType, chatModel,
                   summarizer, settings>>

\* lines 360-369 after a failed attempt: the loop condition, and either the
\* next transport call or the exit of the loop with data === null
LoopTail(w, c, call) ==
    IF LoopContinues(call.tries, FALSE, generating[w]) THEN
        /\ calls' = [calls EXCEPT ![w][c] =
               [call EXCEPT !.pc = "transport", !.sent = @ + 1]]
        /\ UNCHANGED <<generating, timer, timeouts>>
    ELSE
        /\ generating' = [generating EXCEPT ![w] = FALSE]
        /\ timer' = [timer EXCEPT ![w] = ApplyResetTimer(@)]
        /\ timeouts' = [timeouts EXCEPT ![w] = Rearmed(timer[w], @)]
        /\ calls' = [calls EXCEPT ![w][c] = Throw(call, PlainError("What."))]

\* lines 304, 360-380: the transport answers; the lock is released, the idle
\* timer re-armed and the moderation check called
GenTransportOk(w, c, out) ==
    /\ calls[w][c].pc = "transport"
    /\ calls' = [calls EXCEPT ![w][c] = [@ EXCEPT !.pc = "moderation", !.data = out]]
    /\ generating' = [generating EXCEPT ![w] = FALSE]
    /\ timer' = [timer EXCEPT ![w] = ApplyResetTimer(@)]
    /\ timeouts' = [timeouts EXCEPT ![w] = Rearmed(timer[w], @)]
    /\ UNCHANGED <<active, history, cooldown, row, audit, msgs, resets, inits,
                   started, rejected, live, clusters, dev, owner,
                   loads, deleted,
                   subscriptionType, chatModel,
                   summarizer, settings>>

\* lines 306-360: the transport raises e
GenTransportFail(w, c, e) ==
    /\ calls[w][c].pc = "transport"
    /\ LET t == NextTries(calls[w][c].tries)
           k == Classify(e, t)
           call == [calls[w][c] EXCEPT !.tries = t, !.err = e, !.delay = 0]
           noticed == [call EXCEPT !.notices = @ + 1]
       IN  CASE k = "exhausted" ->
                  /\ generating' = [generating EXCEPT ![w] = FALSE]
                  /\ calls' = [calls EXCEPT ![w][c] = Throw(call, ExhaustedError(e))]
                  /\ UNCHANGED <<timer, timeouts>>
             [] k = "unusable" ->
                  /\ calls' = [calls EXCEPT ![w][c] =
                         Throw(noticed, GenError("SessionUnusable", "none"))]
                  /\ UNCHANGED <<generating, timer, timeouts>>
             [] k = "backoff" ->
                  /\ calls' = [calls EXCEPT ![w][c] =
                         [noticed EXCEPT !.pc = "backoff", !.delay = BackoffSeconds(t)]]
                  /\ UNCHANGED <<generating, timer, timeouts>>
             [] k = "through" ->
                  /\ generating' = [generating EXCEPT ![w] = FALSE]
                  /\ calls' = [calls EXCEPT ![w][c] = Throw(noticed, e)]
                  /\ UNCHANGED <<timer, timeouts>>
             [] k = "retry" -> LoopTail(w, c, noticed)
    /\ UNCHANGED <<active, history, cooldown, row, audit, msgs, resets, inits,
                   started, rejected, live, clusters, dev, owner,
                   loads, deleted,
                   subscriptionType, chatModel,
                   summarizer, settings>>

GenBackoffNeverResolves(w, c) ==
    /\ calls[w][c].pc = "backoff"
    /\ UNCHANGED vars

\* line 343: the backoff delay has elapsed
GenBackoffDone(w, c) ==
    /\ calls[w][c].pc = "backoff"
    /\ LoopTail(w, c, [calls[w][c] EXCEPT !.waited = @ + calls[w][c].delay])
    /\ UNCHANGED <<active, history, cooldown, row, audit, msgs, resets, inits,
                   started, rejected, live, clusters, dev, owner,
                   loads, deleted,
                   subscriptionType, chatModel,
                   summarizer, settings>>

\* the broadcast of worker w's history h, evaluated on every running cluster
Broadcast(w, tag, h) ==
    {[from |-> w, to |-> v, tag |-> tag, history |-> Stripped(h)] : v \in clusters}

\* lines 372-394, 487-507: the moderation check answers; the interaction is
\* pushed to the history and the history broadcast
GenModerationDone(w, c, verdict) ==
    /\ calls[w][c].pc = "moderation"
    /\ LET call == calls[w][c]
           result == Interaction(call.data, call.id, verdict, call.id)
           h == Append(history[w], result)
       IN  /\ history' = [history EXCEPT ![w] = h]
           /\ msgs' = msgs \cup Broadcast(w, call.id, h)
           /\ calls' = [calls EXCEPT ![w][c] =
                  [call EXCEPT !.pc = "broadcast", !.pushed = TRUE]]
    /\ UNCHANGED <<active, generating, timer, timeouts, cooldown, row, audit, resets, inits,
                   started, rejected, live, clusters, dev, owner,
                   loads, deleted,
                   subscriptionType, chatModel,
                   summarizer, settings>>

\* an awaited collaborator of the success path rejects: generate() throws
GenExternalFail(w, c) ==
    /\ calls[w][c].pc \in {"moderation", "broadcast", "persist", "audit"}
    /\ calls' = [calls EXCEPT ![w][c] = Throw(@, ExternalError(calls[w][c].pc))]
    /\ UNCHANGED <<active, generating, history, timer, timeouts, cooldown, row, audit, msgs,
                   resets, inits, started, rejected, live, clusters, dev, owner,
                   loads, deleted,
                   subscriptionType, chatModel,
                   summarizer, settings>>

GenBroadcastDoneArmsCooldown(w, c) ==
    /\ calls[w][c].pc = "broadcast"
    /\ \A m \in msgs : ~(m.from = w /\ m.tag = calls[w][c].id)
    /\ cooldown' = [cooldown EXCEPT ![w] =
           CooldownUse(cooldownTime("Free", ModelOptions(0, 0, FALSE)))]
    /\ calls' = [calls EXCEPT ![w][c] =
           [@ EXCEPT !.pc = "persist", !.pending = Reduced(history[w]), !.armed = TRUE]]
    /\ UNCHANGED <<active, generating, history, timer, timeouts, row, audit, msgs,
                   resets, inits, started, rejected, live, clusters, dev, owner,
                   loads, deleted,
                   subscriptionType, chatModel,
                   summarizer, settings>>

\* lines 394-404: the broadcast has been evaluated on every cluster; the
\* reduced history is handed to updateConversation
GenBroadcastDone(w, c) ==
    /\ calls[w][c].pc = "broadcast"
    /\ \A m \in msgs : ~(m.from = w /\ m.tag = calls[w][c].id)
    /\ calls' = [calls EXCEPT ![w][c] =
           [@ EXCEPT !.pc = "persist", !.pending = Reduced(history[w])]]
    /\ UNCHANGED <<active, generating, history, timer, timeouts, cooldown, row, audit, msgs,
                   resets, inits, started, rejected, live, clusters, dev, owner,
                   loads, deleted,
                   subscriptionType, chatModel,
                   summarizer, settings>>

\* lines 422-431: the cooldown is armed and the result returned
FinishArmsOwner(w, c, call, tier, model) ==
    /\ cooldown' = [cooldown EXCEPT ![w] = CooldownUse(cooldownTime(tier, model))]
    /\ calls' = [calls EXCEPT ![w][c] =
           [Settle(call) EXCEPT !.pc = "returned", !.ret = call.tries, !.armed = ~owner]]

Finish(w, c, call, tier, model) ==
    /\ cooldown' = IF ~owner
                   THEN [cooldown EXCEPT ![w] = CooldownUse(cooldownTime(tier, model))]
                   ELSE cooldown
    /\ calls' = [calls EXCEPT ![w][c] =
           [Settle(call) EXCEPT !.pc = "returned", !.ret = call.tries, !.armed = ~owner]]

\* lines 397-420: the durable write has completed; the audit entry is
\* written unless the bot runs in dev mode
GenPersistDone(w, c, tier, model) ==
    /\ calls[w][c].pc = "persist"
    /\ row' = RowWith(calls[w][c].pending)
    /\ LET call == [calls[w][c] EXCEPT !.persisted = TRUE]
       IN  IF dev THEN Finish(w, c, call, tier, model)
           ELSE /\ calls' = [calls EXCEPT ![w][c] = [call EXCEPT !.pc = "audit"]]
                /\ UNCHANGED cooldown
    /\ UNCHANGED <<active, generating, history, timer, timeouts, audit, msgs, resets, inits,
                   started, rejected, live, clusters, dev, owner,
                   loads, deleted,
                   subscriptionType, chatModel,
                   summarizer, settings>>

\* lines 407-431: the audit write has completed
GenAuditDone(w, c, tier, model) ==
    /\ calls[w][c].pc = "audit"
    /\ audit' = [audit EXCEPT ![calls[w][c].id] = @ + 1]
    /\ Finish(w, c, calls[w][c], tier, model)
    /\ UNCHANGED <<active, generating, history, timer, timeouts, row, msgs, resets, inits,
                   started, rejected, live, clusters, dev, owner,
                   loads, deleted,
                   subscriptionType, chatModel,
                   summarizer, settings>>

(* ------------------------------------------------------------------ *)
(* The broadcast handler, lines 492-500                                *)
(* ------------------------------------------------------------------ *)

DeliverMerges(m) ==
    /\ m \in msgs
    /\ msgs' = msgs \ {m}
    /\ IF m.to # m.from /\ live[m.to] THEN
          /\ history' = [history EXCEPT ![m.to] = @ \o m.history]
          /\ timer' = [timer EXCEPT ![m.to] = ApplyResetTimer(@)]
          /\ timeouts' = [timeouts EXCEPT ![m.to] = Rearmed(timer[m.to], @)]
       ELSE UNCHANGED <<history, timer, timeouts>>
    /\ UNCHANGED <<active, generating, cooldown, row, audit, calls, resets, inits,
                   started, rejected, live, clusters, dev, owner,
                   loads, deleted,
                   subscriptionType, chatModel,
                   summarizer, settings>>

Deliver(m) ==
    /\ m \in msgs
    /\ msgs' = msgs \ {m}
    /\ IF m.to # m.from /\ live[m.to] THEN
          /\ history' = [history EXCEPT ![m.to] = m.history]
          /\ timer' = [timer EXCEPT ![m.to] = ApplyResetTimer(@)]
          /\ timeouts' = [timeouts EXCEPT ![m.to] = Rearmed(timer[m.to], @)]
       ELSE UNCHANGED <<history, timer, timeouts>>
    /\ UNCHANGED <<active, generating, cooldown, row, audit, calls, resets, inits,
                   started, rejected, live, clusters, dev, owner,
                   loads, deleted,
                   subscriptionType, chatModel,
                   summarizer, settings>>

(* ------------------------------------------------------------------ *)
(* init(), lines 217-229                                               *)
(* ------------------------------------------------------------------ *)

\* line 219: fetchUser is called
ConvInitStart(w) ==
    /\ inits[w] = "idle"
    /\ inits' = [inits EXCEPT ![w] = "fetchUser"]
    /\ UNCHANGED <<active, generating, history, timer, timeouts, cooldown, row, audit, msgs,
                   calls, resets, started, rejected, live, clusters, dev, owner,
                   loads, deleted,
                   subscriptionType, chatModel,
                   summarizer, settings>>

\* lines 222-228: the user exists; the row is written when the history is empty
ConvInitFetched(w) ==
    /\ inits[w] = "fetchUser"
    /\ IF history[w] = <<>> THEN
          /\ inits' = [inits EXCEPT ![w] = "update"]
          /\ UNCHANGED <<timer, timeouts, active>>
       ELSE
          /\ inits' = [inits EXCEPT ![w] = "idle"]
          /\ timer' = [timer EXCEPT ![w] = ApplyResetTimer(@)]
          /\ timeouts' = [timeouts EXCEPT ![w] = Rearmed(timer[w], @)]
          /\ active' = [active EXCEPT ![w] = TRUE]
    /\ UNCHANGED <<generating, history, cooldown, row, audit, msgs, calls, resets,
                   started, rejected, live, clusters, dev, owner,
                   loads, deleted,
                   subscriptionType, chatModel,
                   summarizer, settings>>

\* lines 222-228: the row has been written with history: null
ConvInitUpdated(w) ==
    /\ inits[w] = "update"
    /\ inits' = [inits EXCEPT ![w] = "idle"]
    /\ row' = RowNull
    /\ timer' = [timer EXCEPT ![w] = ApplyResetTimer(@)]
    /\ timeouts' = [timeouts EXCEPT ![w] = Rearmed(timer[w], @)]
    /\ active' = [active EXCEPT ![w] = TRUE]
    /\ UNCHANGED <<generating, history, cooldown, audit, msgs, calls, resets,
                   started, rejected, live, clusters, dev, owner,
                   loads, deleted,
                   subscriptionType, chatModel,
                   summarizer, settings>>

(* ------------------------------------------------------------------ *)
(* reset(), lines 256-273                                              *)
(* ------------------------------------------------------------------ *)

\* lines 258-268: the timer is re-armed, the history cleared, the row
\* deletion or update requested
ResetStart(w, remove) ==
    /\ resets[w] = "idle"
    /\ resets' = [resets EXCEPT ![w] = IF remove THEN "delete" ELSE "update"]
    /\ timer' = [timer EXCEPT ![w] = ApplyResetTimer(@)]
    /\ timeouts' = [timeouts EXCEPT ![w] = Rearmed(timer[w], @)]
    /\ history' = [history EXCEPT ![w] = <<>>]
    /\ UNCHANGED <<active, generating, cooldown, row, audit, msgs, calls, inits,
                   started, rejected, live, clusters, dev, owner,
                   loads, deleted,
                   subscriptionType, chatModel,
                   summarizer, settings>>

\* lines 262-272: the store has answered; the conversation is unlocked
ResetDone(w) ==
    /\ resets[w] # "idle"
    /\ resets' = [resets EXCEPT ![w] = "idle"]
    /\ row' = IF resets[w] = "delete" THEN NoRow ELSE RowWith(<<>>)
    /\ active' = [active EXCEPT ![w] = (resets[w] # "delete")]
    /\ generating' = [generating EXCEPT ![w] = FALSE]
    /\ UNCHANGED <<history, timer, timeouts, cooldown, audit, msgs, calls, inits,
                   started, rejected, live, clusters, dev, owner,
                   loads, deleted,
                   subscriptionType, chatModel,
                   summarizer, settings>>

(* ------------------------------------------------------------------ *)
(* loadIfNotActive(), lines 171-180, and loadFromDatabase(), 150-169   *)
(* ------------------------------------------------------------------ *)

\* the readings of Date.now() the model tells apart
Clock == {1}

LoadAlwaysReads(w) ==
    /\ active[w]
    /\ loads[w].pc = "idle"
    /\ loads' = [loads EXCEPT ![w] = [pc |-> "cached", out |-> "none"]]
    /\ UNCHANGED <<active, generating, history, timer, timeouts, cooldown, row, audit, msgs,
                   calls, rejected, resets, inits, started, live, clusters, dev, owner,
                   deleted,
                   subscriptionType, chatModel,
                   summarizer, settings>>

\* line 172: the conversation is active; loadIfNotActive() returns at once
LoadNoop(w) ==
    /\ active[w]
    /\ loads[w].pc = "idle"
    /\ loads' = [loads EXCEPT ![w] = [pc |-> "idle", out |-> "noop"]]
    /\ UNCHANGED <<active, generating, history, timer, timeouts, cooldown, row, audit, msgs,
                   calls, rejected, resets, inits, started, live, clusters, dev, owner,
                   deleted,
                   subscriptionType, chatModel,
                   summarizer, settings>>

\* lines 172-175: the conversation is not active; the durable row is fetched
LoadStart(w) ==
    /\ ~active[w]
    /\ loads[w].pc = "idle"
    /\ loads' = [loads EXCEPT ![w] = [pc |-> "cached", out |-> "none"]]
    /\ UNCHANGED <<active, generating, history, timer, timeouts, cooldown, row, audit, msgs,
                   calls, rejected, resets, inits, started, live, clusters, dev, owner,
                   deleted,
                   subscriptionType, chatModel,
                   summarizer, settings>>

\* lines 175-179, 150-169: the fetch answers.  Without a row the call
\* returns; a stored list is replayed and broadcast; then init() is called
LoadCached(w, now) ==
    /\ loads[w].pc = "cached"
    /\ IF ~row.present THEN
          /\ loads' = [loads EXCEPT ![w] = [pc |-> "idle", out |-> "norow"]]
          /\ UNCHANGED <<history, msgs>>
       ELSE IF row.hnull THEN
          /\ loads' = [loads EXCEPT ![w] = [pc |-> "fetchUser", out |-> "none"]]
          /\ UNCHANGED <<history, msgs>>
       ELSE
          LET h == history[w] \o LoadFromDatabase(row.history, now) IN
          /\ history' = [history EXCEPT ![w] = h]
          /\ msgs' = msgs \cup Broadcast(w, NULL, h)
          /\ loads' = [loads EXCEPT ![w] = [pc |-> "replay", out |-> "none"]]
    /\ UNCHANGED <<active, generating, timer, timeouts, cooldown, row, audit,
                   calls, rejected, resets, inits, started, live, clusters, dev, owner,
                   deleted,
                   subscriptionType, chatModel,
                   summarizer, settings>>

\* lines 167, 179: the broadcast of the replayed history has been evaluated
\* on every cluster; init() is called
LoadReplayed(w) ==
    /\ loads[w].pc = "replay"
    /\ \A m \in msgs : ~(m.from = w /\ m.tag = NULL)
    /\ loads' = [loads EXCEPT ![w] = [pc |-> "fetchUser", out |-> "none"]]
    /\ UNCHANGED <<active, generating, history, timer, timeouts, cooldown, row, audit, msgs,
                   calls, rejected, resets, inits, started, live, clusters, dev, owner,
                   deleted,
                   subscriptionType, chatModel,
                   summarizer, settings>>

\* lines 179, 219-228: init() called by loadIfNotActive(): the user exists
LoadInitFetched(w) ==
    /\ loads[w].pc = "fetchUser"
    /\ IF history[w] = <<>> THEN
          /\ loads' = [loads EXCEPT ![w] = [pc |-> "update", out |-> "none"]]
          /\ UNCHANGED <<timer, timeouts, active>>
       ELSE
          /\ loads' = [loads EXCEPT ![w] = [pc |-> "idle", out |-> "init"]]
          /\ timer' = [timer EXCEPT ![w] = ApplyResetTimer(@)]
          /\ timeouts' = [timeouts EXCEPT ![w] = Rearmed(timer[w], @)]
          /\ active' = [active EXCEPT ![w] = TRUE]
    /\ UNCHANGED <<generating, history, cooldown, row, audit, msgs, calls, resets,
                   inits, started, rejected, live, clusters, dev, owner, deleted,
                   subscriptionType, chatModel,
                   summarizer, settings>>

\* lines 179, 222-228: init() called by loadIfNotActive(): the row is written
LoadInitUpdated(w) ==
    /\ loads[w].pc = "update"
    /\ loads' = [loads EXCEPT ![w] = [pc |-> "idle", out |-> "init"]]
    /\ row' = RowNull
    /\ timer' = [timer EXCEPT ![w] = ApplyResetTimer(@)]
    /\ timeouts' = [timeouts EXCEPT ![w] = Rearmed(timer[w], @)]
    /\ active' = [active EXCEPT ![w] = TRUE]
    /\ UNCHANGED <<generating, history, cooldown, audit, msgs, calls, resets,
                   inits, started, rejected, live, clusters, dev, owner, deleted,
                   subscriptionType, chatModel,
                   summarizer, settings>>

\* loadIfNotActive() on the conversation of worker w
Load(w) ==
    \/ LoadNoop(w)
    \/ LoadStart(w)
    \/ \E now \in Clock : LoadCached(w, now)
    \/ LoadReplayed(w)
    \/ LoadInitFetched(w)
    \/ LoadInitUpdated(w)

(* ------------------------------------------------------------------ *)
(* The Manager's live set and the idle timer, lines 242-251            *)
(* ------------------------------------------------------------------ *)

\* Manager.create(user): a fresh conversation enters the live set of worker w
ManagerCreate(w) ==
    /\ w \in clusters
    /\ ~live[w]
    /\ deleted[w] = 0
    /\ live' = [live EXCEPT ![w] = TRUE]
    /\ UNCHANGED <<active, generating, history, timer, timeouts, cooldown, row, audit, msgs,
                   calls, rejected, resets, inits, started, clusters, dev, owner,
                   loads, deleted,
                   subscriptionType, chatModel,
                   summarizer, settings>>

TimerFireKeepsHandle(w) ==
    /\ timer[w] = "pending"
    /\ live' = [live EXCEPT ![w] = FALSE]
    /\ deleted' = [deleted EXCEPT ![w] = @ + 1]
    /\ UNCHANGED <<active, generating, history, timer, timeouts, cooldown, row, audit, msgs,
                   calls, rejected, resets, inits, started, clusters, dev, owner,
                   loads,
                   subscriptionType, chatModel,
                   summarizer, settings>>

\* lines 247-250: the idle timer fires; the handle is dropped and the
\* Manager asked to remove the conversation from its live set
TimerFire(w) ==
    /\ timer[w] = "pending"
    /\ timer' = [timer EXCEPT ![w] = "null"]
    /\ timeouts' = [timeouts EXCEPT ![w] = @ - 1]
    /\ live' = [live EXCEPT ![w] = FALSE]
    /\ deleted' = [deleted EXCEPT ![w] = @ + 1]
    /\ UNCHANGED <<active, generating, history, cooldown, row, audit, msgs,
                   calls, rejected, resets, inits, started, clusters, dev, owner,
                   loads,
                   subscriptionType, chatModel,
                   summarizer, settings>>

(* ------------------------------------------------------------------ *)
(* Specifications                                                      *)
(* ------------------------------------------------------------------ *)

\* one error of each fatal branch of the retry policy
FatalTransportErrors ==
    {ApiError("insufficient_quota", TRUE), GenError("Empty", "none")}

\* generate() on the conversation of worker w: the invocations of `slots`
\* are accepted, the transport raises the errors of `errors`; the backoff
\* delay is a step of the specifications whose transport is rate-limited
Generate(w, slots, errors, tiers) ==
    \/ \E c \in slots : GenStart(w, c)
    \/ \E c \in slots : \E out \in TransportResults(calls[w][c].id, {<<ImageOf(calls[w][c].id)>>}) :
          GenTransportOk(w, c, out)
    \/ \E c \in slots : \E e \in errors : GenTransportFail(w, c, e)
    \/ \E c \in slots : GenModerationDone(w, c, 1)
    \/ \E c \in slots : GenExternalFail(w, c)
    \/ \E c \in slots : GenBroadcastDone(w, c)
    \/ \E c \in slots : \E t \in tiers : GenPersistDone(w, c, t, DefaultModel)
    \/ \E c \in slots : \E t \in tiers : GenAuditDone(w, c, t, DefaultModel)

\* generate() when the transport and every awaited collaborator answer
GenerateOk(w, slots, tiers) ==
    \/ \E c \in slots : GenStart(w, c)
    \/ \E c \in slots : \E out \in TransportResults(calls[w][c].id, {<<ImageOf(calls[w][c].id)>>}) :
          GenTransportOk(w, c, out)
    \/ \E c \in slots : GenModerationDone(w, c, 1)
    \/ \E c \in slots : GenBroadcastDone(w, c)
    \/ \E c \in slots : \E t \in tiers : GenPersistDone(w, c, t, DefaultModel)
    \/ \E c \in slots : \E t \in tiers : GenAuditDone(w, c, t, DefaultModel)

Lifecycle(w) ==
    \/ ConvInitStart(w)
    \/ ConvInitFetched(w)
    \/ ConvInitUpdated(w)
    \/ \E remove \in BOOLEAN : ResetStart(w, remove)
    \/ ResetDone(w)

\* the state once init() has completed on the fresh conversations of `holders`,
\* the cluster running the workers of `running`
InitConversation(running, holders, devs, owners, tiers, models) ==
    /\ clusters = running
    /\ live = [w \in Workers |-> w \in holders]
    /\ active = [w \in Workers |-> w \in holders]
    /\ generating = [w \in Workers |-> FALSE]
    /\ history = [w \in Workers |-> <<>>]
    /\ timer = [w \in Workers |-> IF w \in holders THEN "pending" ELSE "null"]
    /\ cooldown = [w \in Workers |-> NoCooldown]
    /\ timeouts = [w \in Workers |-> IF timer[w] = "pending" THEN 1 ELSE 0]
    /\ row = RowNull
    /\ audit = [i \in AllIds |-> 0]
    /\ msgs = {}
    /\ calls = [w \in Workers |-> [c \in Calls |-> IdleCall]]
    /\ rejected = [w \in Workers |-> NoError]
    /\ resets = [w \in Workers |-> "idle"]
    /\ inits = [w \in Workers |-> "idle"]
    /\ started = [w \in Workers |-> 0]
    /\ dev \in devs
    /\ owner \in owners
    /\ loads = [w \in Workers |-> IdleLoad]
    /\ deleted = [w \in Workers |-> 0]
    /\ subscriptionType \in tiers
    /\ chatModel \in models

InitUser(running, holders, devs, owners, tiers, models) ==
    /\ InitConversation(running, holders, devs, owners, tiers, models)
    /\ summarizer = NoSummary
    /\ settings = NoSettingsRun

InitActive(running, holders, devs, owners) ==
    InitUser(running, holders, devs, owners, {"Free"}, {DefaultModel})

\* one conversation, in production, of a user who is not an owner
Init == InitWith({1}, {1}, {FALSE}, {FALSE})

\* every operation of the conversation, under every interleaving
Next ==
    \/ GenReject(1)
    \/ Generate(1, Calls, FatalTransportErrors, {"Free"})
    \/ Lifecycle(1)
    \/ \E m \in msgs : Deliver(m)

Spec == Init /\ [][Next]_vars

\* the retry loop: one generate() invocation on an active conversation, the
\* transport raising every class of error, under concurrent reset()
InitRetry == InitActive({1}, {1}, {FALSE}, {FALSE})

NextRetry ==
    \/ Generate(1, {1}, AllTransportErrors, {"Free"})
    \/ GenBackoffDone(1, 1)
    \/ \E remove \in BOOLEAN : ResetStart(1, remove)
    \/ ResetDone(1)
    \/ \E m \in msgs : Deliver(m)

SpecRetry == InitRetry /\ [][NextRetry]_vars

\* one error of each branch of the retry policy
BranchTransportErrors ==
    {ApiError("insufficient_quota", TRUE), ApiError("requests", TRUE),
     GenError("Empty", "none"), UnknownErr}

\* a step of the accepted invocation c of worker w: an awaited transport
\* call, backoff delay or collaborator completes
CallStep(w, c) ==
    \/ \E out \in TransportResults(calls[w][c].id, {<<ImageOf(calls[w][c].id)>>}) :
          GenTransportOk(w, c, out)
    \/ \E e \in BranchTransportErrors : GenTransportFail(w, c, e)
    \/ GenBackoffDone(w, c)
    \/ GenModerationDone(w, c, 1)
    \/ GenExternalFail(w, c)
    \/ GenBroadcastDone(w, c)
    \/ GenPersistDone(w, c, "Free", DefaultModel)
    \/ GenAuditDone(w, c, "Free", DefaultModel)

NextLive ==
    \/ \E c \in {1} : GenStart(1, c)
    \/ \E c \in {1} : CallStep(1, c)
    \/ \E remove \in BOOLEAN : ResetStart(1, remove)
    \/ ResetDone(1)
    \/ \E m \in msgs : Deliver(m)

\* the retry loop when every awaited call, delay and delivery completes
LiveRetry ==
    /\ InitRetry
    /\ [][NextLive]_vars
    /\ \A c \in Calls : WF_vars(CallStep(1, c))
    /\ WF_vars(\E m \in msgs : Deliver(m))

\* the success path of generate() on an active conversation, in dev mode or
\* production, for an owner or an ordinary user, under reset(false)
InitPost == InitActive({1}, {1}, BOOLEAN, BOOLEAN)

NextPost ==
    \/ Generate(1, Calls, {GenError("Empty", "none")}, {"Free"})
    \/ ResetStart(1, FALSE)
    \/ ResetDone(1)
    \/ \E m \in msgs : Deliver(m)

SpecPost == InitPost /\ [][NextPost]_vars

\* generate() on an active conversation that is neither reset nor reached by
\* a broadcast of another worker
NextQuiet ==
    \/ Generate(1, Calls, {ApiError("requests", TRUE), GenError("Empty", "none")}, {"Free"})
    \/ \E c \in Calls : GenBackoffDone(1, c)
    \/ \E m \in msgs : Deliver(m)

SpecQuiet == InitPost /\ [][NextQuiet]_vars

\* lazy loading: worker 1 holds the active conversation of a user and
\* generates twice; worker 2 creates its conversation for the same user later and
\* loads it
InitLoad == InitActive({1, 2}, {1}, {FALSE}, {FALSE})

NextLoad ==
    \/ GenerateOk(1, {1, 2}, {"Free"})
    \/ LoadNoop(1)
    \/ ManagerCreate(2)
    \/ live[2] /\ Load(2)
    \/ \E m \in msgs : Deliver(m)

SpecLoad == InitLoad /\ [][NextLoad]_vars

\* a conversation that is not active and whose user may have no durable row:
\* init(), loadIfNotActive() and reset()
NextFresh ==
    \/ Lifecycle(1)
    \/ Load(1)
    \/ \E m \in msgs : Deliver(m)

SpecFresh == Init /\ [][NextFresh]_vars

\* a step of the accepted invocation c of worker w when the transport and
\* every awaited collaborator answer
CallStepOk(w, c) ==
    \/ \E out \in TransportResults(calls[w][c].id, {<<ImageOf(calls[w][c].id)>>}) :
          GenTransportOk(w, c, out)
    \/ GenModerationDone(w, c, 1)
    \/ GenBroadcastDone(w, c)
    \/ GenPersistDone(w, c, "Free", DefaultModel)
    \/ GenAuditDone(w, c, "Free", DefaultModel)

\* idle expiry: generate() and reset() are called on the conversation the
\* Manager holds; the idle timer fires whenever it is armed
NextExpiry ==
    \/ live[1] /\ \E c \in Calls : GenStart(1, c)
    \/ \E c \in Calls : CallStepOk(1, c)
    \/ live[1] /\ ResetStart(1, TRUE)
    \/ ResetDone(1)
    \/ TimerFire(1)
    \/ \E m \in msgs : Deliver(m)

SpecExpiry == InitRetry /\ [][NextExpiry]_vars

\* the entry checks of generate(): the active conversation generates and is
\* made inactive by reset()
NextEntry ==
    \/ GenReject(1)
    \/ GenerateOk(1, Calls, {"Free"})
    \/ ResetStart(1, TRUE)
    \/ ResetDone(1)
    \/ \E m \in msgs : Deliver(m)

SpecEntry == InitRetry /\ [][NextEntry]_vars

\* two worker processes each hold the live, active conversation of the user
\* and generate once
InitCluster == InitActive({1, 2}, {1, 2}, {FALSE}, {FALSE})

NextCluster ==
    \/ \E w \in Workers : GenerateOk(w, {1}, {"Free"})
    \/ \E m \in msgs : Deliver(m)

SpecCluster == InitCluster /\ [][NextCluster]_vars

(* ------------------------------------------------------------------ *)
(* Properties                                                          *)
(* ------------------------------------------------------------------ *)

\* two generate() calls that are rejected, fail fatally, exhaust their retries
\* (the first only) or succeed, for an owner or another user, with
\* reset(remove) between them
InitArm == InitActive({1}, {1}, {FALSE}, BOOLEAN)

NextArm ==
    \/ GenReject(1)
    \/ Generate(1, {1}, {GenError("Empty", "none"), UnknownErr}, {subscriptionType})
    \/ Generate(1, {2}, {GenError("Empty", "none")}, {subscriptionType})
    \/ ResetStart(1, TRUE)
    \/ ResetDone(1)
    \/ \E m \in msgs : Deliver(m)

SpecArm == InitArm /\ [][NextArm]_vars

\* the cooldown options of the chat models a user may have selected: none, a
\* multiplier (in tenths) alone, a time alone, both, and premium-only or not
Models ==
    {DefaultModel, ModelOptions(0, 15, FALSE), ModelOptions(0, 5, TRUE),
     ModelOptions(120 * 1000, 0, TRUE), ModelOptions(120 * 1000, 0, FALSE),
     ModelOptions(120 * 1000, 15, TRUE), ModelOptions(33, 15, TRUE),
     ModelOptions(33, 15, FALSE)}

\* a user of any subscription type, who is no owner, with any of the models
InitTone ==
    InitUser({1}, {1}, {FALSE}, {FALSE}, {Tiers[i] : i \in DOMAIN Tiers}, Models)

\* generate() with the user's subscription and model, every collaborator
\* answering
NextTone ==
    \/ \E c \in Calls : GenStart(1, c)
    \/ \E c \in Calls : \E out \in TransportResults(calls[1][c].id, {<<ImageOf(calls[1][c].id)>>}) :
          GenTransportOk(1, c, out)
    \/ \E c \in Calls : GenModerationDone(1, c, 1)
    \/ \E c \in Calls : GenBroadcastDone(1, c)
    \/ \E c \in Calls : GenPersistDone(1, c, subscriptionType, chatModel)
    \/ \E c \in Calls : GenAuditDone(1, c, subscriptionType, chatModel)
    \/ \E m \in msgs : Deliver(m)

SpecTone == InitTone /\ [][NextTone]_vars

\* reset() has completed on worker w after the one generate() of that worker
\* returned
ResetCompleted(w) ==
    calls[w][1].pc = "returned" /\ resets[w] = "idle" /\ history[w] = <<>>

\* two workers hold the conversation: worker 1 generates, then resets, and
\* only after that reset has completed a generate() is started on worker 2
NextHandover ==
    \/ GenStart(1, 1)
    \/ CallStepOk(1, 1)
    \/ calls[1][1].pc = "returned" /\ \E remove \in BOOLEAN : ResetStart(1, remove)
    \/ ResetDone(1)
    \/ ResetCompleted(1) /\ GenStart(2, 1)
    \/ CallStepOk(2, 1)
    \/ \E m \in msgs : Deliver(m)

SpecHandover == InitCluster /\ [][NextHandover]_vars

\* everything that arms or clears an idle timer, on two workers: generate()
\* on both, reset() on worker 1, init() on worker 2, the broadcasts between
\* them, and the timers firing
NextTimers ==
    \/ \E w \in Workers : live[w] /\ GenStart(w, 1)
    \/ \E w \in Workers : CallStepOk(w, 1)
    \/ live[1] /\ \E remove \in BOOLEAN : ResetStart(1, remove)
    \/ ResetDone(1)
    \/ live[2] /\ ConvInitStart(2)
    \/ ConvInitFetched(2)
    \/ ConvInitUpdated(2)
    \/ \E w \in Workers : TimerFire(w)
    \/ \E m \in msgs : Deliver(m)

SpecTimers == InitCluster /\ [][NextTimers]_vars

(* ------------------------------------------------------------------ *)
(* SummarizeCommand.buildSummarizerPrompt, src/unnamed/part_000:134-173 *)
(* ------------------------------------------------------------------ *)

\* the longest subtitle list a prompt is built from
MaxSubtitles == 3

TokenBudgetOffByThousand == 4000 + 1000

\* the token limit of the prompt
TokenBudget == 4000

\* the sizes, in tokens, the system message and one subtitle may have
SystemTokens == {500, 4500}

SubtitleTokens == {500, 1500, 3000}

\* the subtitle lists: the i-th subtitle of the video, of n tokens
YouTubeSubtitle(i, n) == [index |-> i, tokens |-> n]

SubtitleLists ==
    UNION {{[i \in 1..k |-> YouTubeSubtitle(i, f[i])] : f \in [1..k -> SubtitleTokens]} :
              k \in 0..MaxSubtitles}

\* the two messages of the prompt: the instructions, and the subtitles joined
\* into one message
SummaryMessages(system, subtitles) ==
    <<[role |-> "system", tokens |-> system],
      [role |-> "assistant", content |-> subtitles]>>

RECURSIVE JoinedTokens(_)
JoinedTokens(subtitles) ==
    IF subtitles = <<>> THEN 0
    ELSE subtitles[1].tokens + JoinedTokens(Tail(subtitles))

countChatMessageTokens(messages) ==
    messages[1].tokens + JoinedTokens(messages[2].content)

\* Array.prototype.pop(): the array without its last element
Pop(arr) == SubSeq(arr, 1, Len(arr) - 1)

\* one invocation of buildSummarizerPrompt, from its entry to its return, its
\* throw or its recursive call
BuildSummarizerPrompt ==
    /\ summarizer.pc = "build"
    /\ LET messages == SummaryMessages(summarizer.system, summarizer.subtitles)
           tokens == countChatMessageTokens(messages)
       IN  summarizer' =
             IF tokens > TokenBudget /\ Len(summarizer.subtitles) = 0 THEN
                 [summarizer EXCEPT !.pc = "thrown", !.tokens = tokens,
                                    !.error = GenError("Length", "none")]
             ELSE IF tokens > TokenBudget THEN
                 [summarizer EXCEPT !.subtitles = Pop(@), !.steps = @ + 1]
             ELSE
                 [summarizer EXCEPT !.pc = "returned", !.tokens = tokens,
                                    !.messages = messages]
    /\ UNCHANGED <<active, generating, history, timer, timeouts, cooldown, row,
                   audit, msgs, calls, rejected, resets, inits, started, live,
                   clusters, dev, owner, loads, deleted,
                   subscriptionType, chatModel, settings>>

\* buildSummarizerPrompt is called with any system message and subtitle list
InitSummarize ==
    /\ InitConversation({1}, {1}, {FALSE}, {FALSE}, {"Free"}, {DefaultModel})
    /\ summarizer \in
          {[NoSummary EXCEPT !.pc = "build", !.system = sys, !.initial = l,
                             !.subtitles = l] :
              sys \in SystemTokens, l \in SubtitleLists}
    /\ settings = NoSettingsRun

NextSummarize == BuildSummarizerPrompt

SpecSummarize == InitSummarize /\ [][NextSummarize]_vars

\* the call and its recursive calls run to their end
LiveSummarize == SpecSummarize /\ WF_vars(BuildSummarizerPrompt)

(* ------------------------------------------------------------------ *)
(* SettingsCommand.run, src/unnamed/part_000:364-413                   *)
(* ------------------------------------------------------------------ *)

\* the options of the category, in the order of settings.options(category):
\* a choice option, an autocomplete option and one of another kind
SettingsOptions ==
    <<[key |-> "tone", type |-> "choice"],
      [key |-> "language", type |-> "autocomplete"],
      [key |-> "partial", type |-> "other"]>>

OptionKeys == {SettingsOptions[i].key : i \in DOMAIN SettingsOptions}

\* option.data.choices of a choice option; the values option.valid() accepts
Choices == {[value |-> "free", premium |-> FALSE], [value |-> "premium", premium |-> TRUE]}

ValidValues == {"free", "premium"}

\* what an invocation may give for an option: nothing, or a value
NotGiven == "undefined"

GivenValues == {NotGiven, "free", "premium", "bad"}

\* option.data.choices.find(c => c.value === value) ?? null: the choice found,
\* as a set of at most one element
FindChoice(value) == {c \in Choices : c.value = value}

\* the body of the loop over the options for the option at position i, the
\* changes collected so far being `changes`: an early return of the command,
\* with the changes collected up to it, or the rest of the loop
RECURSIVE CollectChanges(_, _, _, _, _)
CollectChanges(i, given, stored, premium, changes) ==
    IF i > Len(SettingsOptions) THEN [response |-> "format", changes |-> changes]
    ELSE
      LET option == SettingsOptions[i]
          value == given[option.key]
          chosen == FindChoice(value)
          next == IF stored[option.key] # value
                  THEN changes \cup {<<option.key, value>>}
                  ELSE changes
      IN  IF value = NotGiven THEN
              CollectChanges(i + 1, given, stored, premium, changes)
          ELSE IF option.type = "choice" /\ chosen = {} THEN
              [response |-> "invalid", changes |-> changes]
          ELSE IF option.type = "choice" /\ (\E c \in chosen : c.premium) /\ ~premium THEN
              [response |-> "premiumOnly", changes |-> changes]
          ELSE IF option.type = "autocomplete" /\ value \notin ValidValues THEN
              [response |-> "invalid", changes |-> changes]
          ELSE CollectChanges(i + 1, given, stored, premium, next)

\* db.settings.apply(user, changes): the stored settings with the changes
SettingsApply(stored, changes) ==
    [k \in OptionKeys |->
        IF \E c \in changes : c[1] = k
        THEN (CHOOSE c \in changes : c[1] = k)[2]
        ELSE stored[k]]

SettingsRunAppliesCollected ==
    /\ settings.pc = "run"
    /\ LET out == CollectChanges(1, settings.given, settings.stored,
                                 settings.premium, {})
       IN  settings' =
             IF out.changes # {}
             THEN [settings EXCEPT !.pc = "apply",
                                   !.applied = Append(@, out.changes)]
             ELSE [settings EXCEPT !.pc = "returned", !.response = out.response]
    /\ UNCHANGED <<active, generating, history, timer, timeouts, cooldown, row,
                   audit, msgs, calls, rejected, resets, inits, started, live,
                   clusters, dev, owner, loads, deleted,
                   subscriptionType, chatModel, summarizer>>

\* run() up to its early return, its return without changes, or the await
\* of settings.apply()
SettingsRun ==
    /\ settings.pc = "run"
    /\ LET out == CollectChanges(1, settings.given, settings.stored,
                                 settings.premium, {})
       IN  settings' =
             IF out.response = "format" /\ out.changes # {}
             THEN [settings EXCEPT !.pc = "apply",
                                   !.applied = Append(@, out.changes)]
             ELSE [settings EXCEPT !.pc = "returned", !.response = out.response]
    /\ UNCHANGED <<active, generating, history, timer, timeouts, cooldown, row,
                   audit, msgs, calls, rejected, resets, inits, started, live,
                   clusters, dev, owner, loads, deleted,
                   subscriptionType, chatModel, summarizer>>

\* settings.apply() resolves and run() returns the formatted settings
SettingsApplied ==
    /\ settings.pc = "apply"
    /\ settings' =
          [settings EXCEPT !.pc = "returned", !.response = "format",
              !.stored = SettingsApply(@, settings.applied[Len(settings.applied)])]
    /\ UNCHANGED <<active, generating, history, timer, timeouts, cooldown, row,
                   audit, msgs, calls, rejected, resets, inits, started, live,
                   clusters, dev, owner, loads, deleted,
                   subscriptionType, chatModel, summarizer>>

\* /settings is run by a user with or without premium, with any values given
\* and any valid values stored
InitSettings ==
    /\ InitConversation({1}, {1}, {FALSE}, {FALSE}, {"Free"}, {DefaultModel})
    /\ summarizer = NoSummary
    /\ settings \in
          {[NoSettingsRun EXCEPT !.pc = "run", !.premium = p, !.given = g,
                                 !.before = st, !.stored = st] :
              p \in BOOLEAN, g \in [OptionKeys -> GivenValues],
              st \in [OptionKeys -> ValidValues]}

NextSettings ==
    \/ SettingsRun
    \/ SettingsApplied

SpecSettings == InitSettings /\ [][NextSettings]_vars

SomeInFlight(w) == \E c \in Calls : InFlight(w, c)

\* C1: `generating` is true exactly while a generate() invocation that passed
\* its entry checks has not settled (post-transport phase included), and no
\* two invocations of one conversation are in flight at the same time.
C1_GeneratingWhileInFlight ==
    \A w \in Workers :
        /\ generating[w] <=> SomeInFlight(w)
        /\ \A c, d \in Calls : InFlight(w, c) /\ InFlight(w, d) => c = d

\* C2: a generate() entered while an earlier invocation on the same
\* conversation has not settled fails with Busy, and changes neither the
\* history, the lock, the idle timer, the cooldown nor the durable row.
C2_SecondCallIsBusy ==
    [][\A w \in Workers :
          (SomeInFlight(w) /\ (started'[w] # started[w] \/ rejected'[w] # rejected[w]))
            => /\ rejected'[w] = GenError("Busy", "none")
               /\ UNCHANGED <<history, generating, timer, cooldown, row, started>>]_vars

\* C3: when generate() ends by throwing out of the retry loop, `generating`
\* is false at the moment the error propagates.
C3_UnlockedWhenFatal ==
    [][\A w \in Workers : \A c \in Calls :
          (calls[w][c].pc = "transport" /\ calls'[w][c].pc = "thrown")
            => ~generating'[w]]_vars

\* C4: one generate() invocation calls the transport at most 10 times, and
\* an invocation whose 10th transport call failed has thrown.
C4_AtMostTenTransportCalls ==
    \A w \in Workers : \A c \in Calls :
        /\ calls[w][c].sent <= 10
        /\ calls[w][c].tries = 10 => calls[w][c].pc = "thrown"

\* the 10th transport call of an invocation failed and the invocation threw
C4_Witness ==
    \E c \in Calls :
        calls[1][c].pc = "thrown" /\ calls[1][c].tries = 10 /\ calls[1][c].sent = 10

\* the errors that mean the session is unusable: quota exhausted, access
\* terminated, or a generation error of type SessionUnusable
UnusableClass(e) ==
    \/ e.cls = "API" /\ e.id \in {"insufficient_quota", "access_terminated"}
    \/ e.cls = "Gen" /\ e.type = "SessionUnusable"

\* C5: once the transport has raised an error of the session-unusable class,
\* on any attempt 1..10, the invocation has thrown a generation error of type
\* SessionUnusable (and so calls the transport no more).
C5_UnusableAlwaysWins ==
    \A w \in Workers : \A c \in Calls :
        UnusableClass(calls[w][c].err)
          => /\ calls[w][c].pc = "thrown"
             /\ calls[w][c].thrown.cls = "Gen"
             /\ calls[w][c].thrown.type = "SessionUnusable"

\* the rate-limit / transient-bad-request class
RateLimitClass(e) ==
    \/ e.cls = "API" /\ e.id \in {"requests", "invalid_request_error"}
    \/ e.cls = "TypeError"

\* C6: after the N-th failed attempt (N = 1..9) the loop waits 5 + 5*N seconds
\* when the error is of the rate-limit class, and 0 seconds for every other
\* error that is retried.
C6_BackoffDelay ==
    \A w \in Workers : \A c \in Calls :
        LET call == calls[w][c] IN
        /\ call.pc = "backoff"
             => /\ call.tries \in 1..9
                /\ RateLimitClass(call.err)
                /\ call.delay = 5 + (5 * call.tries)
        /\ (call.pc = "transport" /\ call.tries >= 1)
             => call.delay = IF RateLimitClass(call.err) THEN 5 + (5 * call.tries) ELSE 0

\* the transport is called for the 10th time after a wait of 50 seconds
C6_Witness ==
    \E c \in Calls :
        /\ calls[1][c].pc = "transport"
        /\ calls[1][c].tries = 9
        /\ calls[1][c].delay = 50
        /\ calls[1][c].waited >= 50

\* C7: every generate() invocation that passed its entry checks eventually
\* settles: it returns or throws.
C7_EveryCallSettles ==
    \A w \in Workers : \A c \in Calls : InFlight(w, c) ~> ~InFlight(w, c)

\* an invocation that failed 9 times and waited in backoff has returned
C7_Witness ==
    \E c \in Calls :
        calls[1][c].pc = "returned" /\ calls[1][c].ret = 9 /\ calls[1][c].waited > 0

\* C8: within an invocation the interaction is pushed to the history before
\* the durable write, and the cooldown is armed only by an invocation whose
\* push and durable write have both completed; an invocation that throws
\* has not armed the cooldown.
C8_CooldownAfterPersist ==
    \A w \in Workers :
        /\ \A c \in Calls :
              LET call == calls[w][c] IN
              /\ call.persisted => call.pushed
              /\ call.armed => call.pushed /\ call.persisted /\ call.pc = "returned"
              /\ call.pc = "thrown" => ~call.armed
        /\ cooldown[w].armed => \E c \in Calls : calls[w][c].armed

\* an invocation has returned and armed the cooldown, and another one threw
\* after its push because a later await failed
C8_Witness ==
    \E c, d \in Calls :
        /\ calls[1][c].pc = "returned" /\ calls[1][c].armed /\ cooldown[1].armed
        /\ calls[1][d].pc = "thrown" /\ calls[1][d].pushed /\ ~calls[1][d].persisted

\* C9: when generate() returns after k failed attempts on a conversation that
\* was neither reset nor reached by a broadcast meanwhile, the history is one
\* entry longer than at entry, its last entry is the new interaction, and the
\* returned tries is k.
C9_GrowsByOne ==
    [][\A w \in Workers : \A c \in Calls :
          (calls[w][c].pc # "returned" /\ calls'[w][c].pc = "returned")
            => /\ Len(history'[w]) = calls[w][c].len0 + 1
               /\ history'[w][Len(history'[w])].output.id = calls[w][c].id
               /\ calls'[w][c].ret = calls[w][c].tries]_vars

PersistedFields == {"id", "input", "output"}

\* every entry of the list l carries the fields id, input and output only
ReducedShape(l) == \A i \in DOMAIN l : DOMAIN l[i] = PersistedFields

\* the list p has the length and the order of the history h
SameOrder(p, h) ==
    /\ Len(p) = Len(h)
    /\ \A i \in 1..Len(h) :
          /\ p[i].id = h[i].output.id
          /\ p[i].input = h[i].input
          /\ p[i].output.id = h[i].output.id

\* C10: the history field of the durable row, and every value handed to the
\* store for it, is null, empty or a list of entries that carry id, input and
\* output only; the list generate() hands to the store has the length and the
\* order of the in-memory history, and when generate() returns the persisted
\* list has the length and the order of the in-memory history.
C10_PersistedShape ==
    /\ [](/\ ReducedShape(row.history)
          /\ \A w \in Workers : \A c \in Calls : ReducedShape(calls[w][c].pending))
    /\ [][\A w \in Workers : \A c \in Calls :
             /\ (calls[w][c].pc = "broadcast" /\ calls'[w][c].pc = "persist")
                   => SameOrder(calls'[w][c].pending, history'[w])
             /\ (calls[w][c].pc # "returned" /\ calls'[w][c].pc = "returned")
                   => /\ row'.present /\ ~row'.hnull
                      /\ SameOrder(row'.history, history'[w])]_vars

\* the in-memory output whose persisted form is the database message m
OutputOf(m) == [id |-> m.id, images |-> <<ImageOf(m.id)>>]

\* C11: when loadFromDatabase() replays the persisted list into a
\* conversation with empty history, the replayed entries equal the persisted
\* ones in number, order, input and output content (the images back in their
\* in-memory form), and have trigger, reply and moderation null.
C11_RoundTrip ==
    [][\A w \in Workers :
          (loads[w].pc = "cached" /\ loads'[w].pc = "replay" /\ history[w] = <<>>)
            => /\ Len(history'[w]) = Len(row.history)
               /\ \A i \in 1..Len(row.history) :
                     LET e == history'[w][i]
                         d == row.history[i] IN
                     /\ e.input = d.input
                     /\ ResponseMessageToDatabase(e.output) = d.output
                     /\ e.output = OutputOf(d.output)
                     /\ e.output.id = d.id
                     /\ e.trigger = NULL /\ e.reply = NULL /\ e.moderation = NULL]_vars

\* worker 2 has replayed a persisted list of two entries into its fresh
\* conversation
C11_Witness ==
    /\ loads[2].pc = "replay"
    /\ Len(row.history) = 2
    /\ history[2] = LoadFromDatabase(row.history, 1)
    /\ history[2][2].output = OutputOf(row.history[2].output)

\* C12: loadIfNotActive() on an active conversation returns at once: no
\* durable read, no broadcast, no init(), and history, timer, active and
\* generating are unchanged, each time it is called.
C12_LoadWhenActiveIsNoop ==
    [][\A w \in Workers :
          (active[w] /\ loads[w].pc = "idle" /\ loads'[w] # loads[w])
            => /\ loads'[w] = [pc |-> "idle", out |-> "noop"]
               /\ UNCHANGED <<history, timer, active, generating, msgs, inits, row>>]_vars

\* loadIfNotActive() has returned at once on an active conversation that
\* holds history
C12_Witness ==
    active[1] /\ loads[1] = [pc |-> "idle", out |-> "noop"] /\ history[1] # <<>>

\* C13: when loadIfNotActive(), called on a conversation that is not active,
\* returns, it has called init(): the conversation is active and its idle
\* timer armed, whether or not a durable row exists.
C13_LoadEndsWithInit ==
    [][\A w \in Workers :
          (loads[w].pc # "idle" /\ loads'[w].pc = "idle")
            => /\ loads'[w].out = "init"
               /\ active'[w]
               /\ timer'[w] = "pending"]_vars

\* C14: when reset(remove) completes, the in-memory history is empty and
\* `generating` is false; with remove = true the durable row is deleted and
\* `active` is false; with remove = false the row's history is empty and
\* `active` is true.
C14_ResetPostcondition ==
    [][\A w \in Workers :
          (resets[w] # "idle" /\ resets'[w] = "idle")
            => /\ history'[w] = <<>>
               /\ ~generating'[w]
               /\ resets[w] = "delete" => (~row'.present /\ ~active'[w])
               /\ resets[w] = "update" => (row' = RowWith(<<>>) /\ active'[w])]_vars

C16_InactiveRejected ==
    [][\A w \in Workers :
          (~active[w] /\ (rejected'[w] # rejected[w] \/ started'[w] # started[w]))
            => /\ rejected'[w] = PlainError("Conversation is inactive")
               /\ UNCHANGED <<generating, history, timer, cooldown, row, calls,
                              started, msgs, audit>>]_vars

\* generate() has been rejected on a conversation made inactive by reset()
\* while an earlier invocation held the lock
C16_Witness ==
    /\ ~active[1]
    /\ rejected[1] = PlainError("Conversation is inactive")
    /\ started[1] >= 1
    /\ row.present

\* no operation is in flight on any worker and every broadcast is delivered
Quiescent ==
    /\ msgs = {}
    /\ \A w \in Workers :
          /\ ~SomeInFlight(w)
          /\ resets[w] = "idle" /\ inits[w] = "idle" /\ loads[w].pc = "idle"

\* C17: once no history-changing operation is in flight and every broadcast
\* has been delivered, all workers that hold a live conversation of the user
\* hold the same history (up to the handles a broadcast strips).
C17_WorkersConverge ==
    Quiescent
      => \A v, w \in clusters :
            (live[v] /\ live[w]) => Stripped(history[v]) = Stripped(history[w])

\* a transport call of invocation c of worker w fails in this step
AttemptFails(w, c) == calls'[w][c].tries # calls[w][c].tries

\* a generation error of type Empty or Length
EmptyOrLengthClass(e) == e.cls = "Gen" /\ e.type \in {"Empty", "Length"}

\* C18: a generation error of type Empty or Length raised on attempt N < 10
\* aborts generate() at once: the same error is thrown, the transport is not
\* called again, no backoff delay is taken and the history is unchanged.
C18_EmptyLengthAbort ==
    /\ [](\A w \in Workers : \A c \in Calls :
            (EmptyOrLengthClass(calls[w][c].err) /\ calls[w][c].tries < 10)
              => /\ calls[w][c].pc = "thrown"
                 /\ calls[w][c].thrown = calls[w][c].err
                 /\ calls[w][c].delay = 0)
    /\ [][\A w \in Workers : \A c \in Calls :
            (AttemptFails(w, c) /\ EmptyOrLengthClass(calls'[w][c].err)
                                /\ calls'[w][c].tries < 10)
              => /\ calls'[w][c].sent = calls[w][c].sent
                 /\ calls'[w][c].waited = calls[w][c].waited
                 /\ UNCHANGED history]_vars

\* a Length error on the third attempt has been thrown to the caller
C18_Witness ==
    \E c \in Calls :
        /\ calls[1][c].pc = "thrown" /\ calls[1][c].thrown = GenError("Length", "none")
        /\ calls[1][c].tries = 3 /\ calls[1][c].sent = 3

\* a generation error with a cause that is not an API error, or an API error
\* that is not server-side and not of the quota or rate-limit class
ThroughClass(e) ==
    \/ e.cls = "Gen" /\ e.cause = "other"
    \/ e.cls = "API" /\ ~e.server /\ e.id \in {"server_error"}

\* C19 as stated: every error of the class above, raised on attempt N < 10,
\* ends the invocation: the error itself is thrown, with `generating` false,
\* and the transport is not called again.
C19_ThroughAbort ==
    /\ [](\A w \in Workers : \A c \in Calls :
            (ThroughClass(calls[w][c].err) /\ calls[w][c].tries < 10)
              => /\ calls[w][c].pc = "thrown"
                 /\ calls[w][c].thrown = calls[w][c].err)
    /\ [][\A w \in Workers : \A c \in Calls :
            (AttemptFails(w, c) /\ ThroughClass(calls'[w][c].err)
                                /\ calls'[w][c].tries < 10)
              => /\ ~generating'[w]
                 /\ calls'[w][c].sent = calls[w][c].sent]_vars

\* the class above without the generation errors of type SessionUnusable
ThroughClassUsable(e) ==
    ThroughClass(e) /\ ~(e.cls = "Gen" /\ e.type = "SessionUnusable")

\* C19, amended: a generation error of a type other than SessionUnusable that
\* carries a cause which is not an API error, or an API error that is not
\* server-side and not of the quota or rate-limit class, raised on attempt
\* N < 10, ends the invocation: the error itself is thrown, with `generating`
\* false, and the transport is not called again.
C19_ThroughAbortUsable ==
    /\ [](\A w \in Workers : \A c \in Calls :
            (ThroughClassUsable(calls[w][c].err) /\ calls[w][c].tries < 10)
              => /\ calls[w][c].pc = "thrown"
                 /\ calls[w][c].thrown = calls[w][c].err)
    /\ [][\A w \in Workers : \A c \in Calls :
            (AttemptFails(w, c) /\ ThroughClassUsable(calls'[w][c].err)
                                /\ calls'[w][c].tries < 10)
              => /\ ~generating'[w]
                 /\ calls'[w][c].sent = calls[w][c].sent]_vars

\* a client-side API error on the second attempt has been rethrown
C19_Witness ==
    \E c \in Calls :
        /\ calls[1][c].pc = "thrown" /\ calls[1][c].thrown = ApiError("server_error", FALSE)
        /\ calls[1][c].tries = 2 /\ ~generating[1]

\* what the 10th failed attempt throws, and when an error of type Other is
\* created: on the 10th attempt only, around an error that is neither a
\* generation error nor an API error
TenthAttempt(w, c) ==
    LET after == calls'[w][c] IN
    /\ (AttemptFails(w, c) /\ after.tries = 10)
          => /\ after.pc = "thrown"
             /\ after.thrown = IF after.err.cls \in {"Gen", "API"} THEN after.err
                               ELSE GenError("Other", "other")
    /\ (AttemptFails(w, c) /\ after.pc = "thrown" /\ after.thrown # after.err
                           /\ after.thrown.cls = "Gen" /\ after.thrown.type = "Other")
          => after.tries = 10 /\ after.err.cls \notin {"Gen", "API"}

\* the next transport call follows the failed attempt at once
RetriedAtOnce(w, c) ==
    /\ calls'[w][c].pc = "transport"
    /\ calls'[w][c].delay = 0
    /\ calls'[w][c].sent = calls[w][c].sent + 1
    /\ calls'[w][c].waited = calls[w][c].waited

C21_NoTimerWhileGenerating ==
    \A w \in Workers : generating[w] => timer[w] # "pending"

\* C22: whenever a conversation is active and not generating its idle timer
\* is armed, in particular after a generate() that ended with a fatal error
\* or with exhausted retries.
C22_IdleTimerArmed ==
    \A w \in Workers : (active[w] /\ ~generating[w]) => timer[w] = "pending"

\* A step that delivers the broadcast m: the message leaves the network.
Delivered(m) == m \in msgs /\ m \notin msgs'

\* C23: a broadcast delivered to a process other than its originator that
\* holds a live conversation replaces that conversation's history by the
\* payload, unmerged; delivered to its originator or to a process without a
\* live conversation it changes no history; no delivery creates a
\* conversation, and no other process's history changes.
C23_DeliveryReplaces ==
    [][\A m \in msgs : Delivered(m) =>
          /\ live' = live
          /\ active' = active
          /\ \A w \in Workers : w # m.to => history'[w] = history[w]
          /\ IF m.to # m.from /\ live[m.to]
             THEN history'[m.to] = m.history
             ELSE /\ history'[m.to] = history[m.to]
                  /\ timer'[m.to] = timer[m.to]
                  /\ generating'[m.to] = generating[m.to]]_vars

\* Worker 2, which replayed a durable row into its own history, now holds
\* exactly the two-entry payload of worker 1's second generate().
C23_Witness ==
    /\ live[2]
    /\ loads[2].out # "none"
    /\ Len(history[2]) = 2
    /\ history[2][1].moderation # NULL
    /\ history[2] = Stripped(history[1])

\* C24: the delivery of a broadcast from another process changes, on the
\* receiving conversation, nothing but `history`: its `generating` flag and
\* its idle-timer handle are changed by local operations only.
C24_DeliveryChangesHistoryOnly ==
    [][\A m \in msgs : (Delivered(m) /\ m.to # m.from) =>
          /\ generating'[m.to] = generating[m.to]
          /\ timer'[m.to] = timer[m.to]
          /\ active'[m.to] = active[m.to]
          /\ cooldown'[m.to] = cooldown[m.to]]_vars

\* C24 (amended): the delivery of a broadcast from another process changes, on
\* the receiving conversation, `history` and the idle timer, which it re-arms
\* when the receiver holds a live conversation; `generating`, `active`, the
\* cooldown and the receiver's calls in flight are left alone.
C24_DeliveryRearmsTimer ==
    [][\A m \in msgs : (Delivered(m) /\ m.to # m.from) =>
          /\ generating'[m.to] = generating[m.to]
          /\ active'[m.to] = active[m.to]
          /\ cooldown'[m.to] = cooldown[m.to]
          /\ calls'[m.to] = calls[m.to]
          /\ timer'[m.to] = IF live[m.to] THEN "pending" ELSE timer[m.to]]_vars

\* Worker 2 is generating, holds the history worker 1 broadcast, and its idle
\* timer, cleared when its generate() began, is armed again.
C24_Witness ==
    /\ generating[2]
    /\ timer[2] = "pending"
    /\ Len(history[2]) = 1
    /\ history[2][1].trigger = NULL

\* The payload that reports the history h: the same entries in the same
\* order, the trigger and reply handle of each replaced by null.
Reports(payload, h) ==
    /\ Len(payload) = Len(h)
    /\ \A i \in 1..Len(h) :
          /\ payload[i].input = h[i].input
          /\ payload[i].output = h[i].output
          /\ payload[i].moderation = h[i].moderation
          /\ payload[i].time = h[i].time
          /\ payload[i].trigger = NULL
          /\ payload[i].reply = NULL

\* Worker w has, after the step, a broadcast of its current history in flight
\* to every process of the cluster.
SentToAll(w) ==
    \A v \in clusters :
        \E m \in msgs' : m.from = w /\ m.to = v /\ Reports(m.history, history'[w])

\* C25: every broadcast put in flight reports the sender's whole history as
\* it is after the local change, in order and with null trigger and reply;
\* one is sent with every entry generate() appends and with every replay of a
\* durable row that has a history list.
C25_BroadcastAfterChange ==
    [][/\ \A m \in msgs' \ msgs : Reports(m.history, history'[m.from])
       /\ \A w \in Workers :
             /\ (\E c \in Calls : ~calls[w][c].pushed /\ calls'[w][c].pushed)
                    => (Len(history'[w]) = Len(history[w]) + 1 /\ SentToAll(w))
             /\ (loads[w].pc = "cached" /\ row.present /\ ~row.hnull)
                    => (loads'[w] # loads[w] => SentToAll(w))]_vars

\* In flight at once: the replay broadcast of worker 2 and the broadcast of an
\* appended entry of worker 1, neither empty.
C25_Witness ==
    /\ \E m \in msgs : m.from = 2 /\ m.tag = NULL /\ m.history # <<>>
    /\ \E m \in msgs : m.from = 1 /\ m.tag # NULL /\ Len(m.history) = 2

\* C26: a progress notice is delivered only for a failed attempt that is
\* followed by another transport call (at once or after the backoff); a
\* failure that makes generate() throw delivers none; a call that succeeds
\* after k failures has delivered exactly k notices.
C26_NoticeOnlyWhenRetried ==
    [][\A w \in Workers, c \in Calls :
          /\ AttemptFails(w, c) =>
                IF calls'[w][c].pc \in {"transport", "backoff"}
                THEN calls'[w][c].notices = calls[w][c].notices + 1
                ELSE calls'[w][c].notices = calls[w][c].notices
          /\ calls'[w][c].pc = "returned" =>
                calls'[w][c].notices = calls'[w][c].tries]_vars

\* The call in slot c of worker w ends in this step with the given outcome.
Ends(w, c, outcome) == calls[w][c].pc # outcome /\ calls'[w][c].pc = outcome

\* C27: only a generate() that returns arms the cooldown. A call that is
\* rejected at entry or throws leaves the cooldown as it was; a call that
\* returns for an owner leaves it as it was; a call that returns for any other
\* user sets it, in that one step, to a window of cooldownTime() milliseconds,
\* whatever window was there before.
C27_ArmedOnlyOnSuccess ==
    [][\A w \in Workers :
          /\ cooldown'[w] # cooldown[w] =>
                \E c \in Calls : Ends(w, c, "returned") /\ ~owner
          /\ rejected'[w] # rejected[w] => cooldown'[w] = cooldown[w]
          /\ \A c \in Calls :
                /\ Ends(w, c, "thrown") => cooldown'[w] = cooldown[w]
                /\ Ends(w, c, "returned") =>
                      cooldown'[w] =
                          IF owner THEN cooldown[w]
                          ELSE CooldownUse(cooldownTime(subscriptionType, chatModel))]_vars

\* Not an owner: one call has returned and armed the cooldown, another has
\* thrown after its tenth failed attempt, and a third was rejected at entry.
C27_Witness ==
    /\ ~owner
    /\ cooldown[1].armed
    /\ rejected[1] # NoError
    /\ \E c, d \in Calls :
          /\ calls[1][c].pc = "returned"
          /\ calls[1][d].pc = "thrown"
          /\ calls[1][d].tries = CONVERSATION_ERROR_RETRY_MAX_TRIES

\* The tier modifier, in hundredths: 1, 0.5, 0.15 and 0.09.
TierModifier(t) ==
    CASE t = "Free" -> 100
      [] t = "Voter" -> 50
      [] t = "GuildPremium" -> 15
      [] t = "UserPremium" -> 9

\* r is base * modifier * multiplier rounded to the nearest integer, halves
\* upwards; modifier is in hundredths and multiplier in tenths.
IsRounded(r, base, modifier, multiplier) ==
    LET p == base * modifier * multiplier
    IN  p - 500 < 1000 * r /\ 1000 * r <= p + 500

Overrides(mdl) == mdl.premiumOnly /\ mdl.time # 0

C29_AuditFireAndForget ==
    /\ \A i \in AllIds :
          /\ audit[i] <= 1
          /\ audit[i] = 1 =>
                /\ ~dev
                /\ \E w \in Workers, c \in Calls :
                      calls[w][c].id = i /\ calls[w][c].pc = "returned"
    /\ \A w \in Workers, c \in Calls :
          LET call == calls[w][c] IN
          /\ call.pc = "thrown" => call.thrown # ExternalError("audit")
          /\ (call.persisted /\ call.pc \in {"thrown", "returned"}) =>
                (call.pc = "returned" /\ (call.armed <=> ~owner))

\* The seconds of backoff one generate() call has taken or is taking.
TotalBackoff(call) == call.waited + (IF call.pc = "backoff" THEN call.delay ELSE 0)

\* C30: the backoff delays of one generate() call add up to at most 270
\* seconds, and a call whose tenth attempt has failed takes no delay.
C30_BackoffBudget ==
    \A w \in Workers, c \in Calls :
        LET call == calls[w][c] IN
        /\ TotalBackoff(call) <= 270
        /\ call.tries = CONVERSATION_ERROR_RETRY_MAX_TRIES =>
              (call.pc # "backoff" /\ call.delay = 0)

\* Nine rate-limited attempts, 270 seconds of backoff, and the tenth attempt
\* failed too: the call has thrown.
C30_Witness ==
    \E c \in Calls :
        /\ calls[1][c].pc = "thrown"
        /\ calls[1][c].tries = CONVERSATION_ERROR_RETRY_MAX_TRIES
        /\ calls[1][c].waited = 270

\* init() on worker w, called directly or by loadIfNotActive(), ends in this
\* step.
InitEnds(w) ==
    \/ inits[w] # "idle" /\ inits'[w] = "idle"
    \/ loads[w].pc \in {"fetchUser", "update"} /\ loads'[w].pc = "idle"

\* The write of init() to the durable row lands in this step.
InitWrites(w) ==
    \/ inits[w] = "update" /\ inits'[w] = "idle"
    \/ loads[w].pc = "update" /\ loads'[w].pc = "idle"

\* C31: init() never destroys stored history: when its write lands on a
\* durable row that holds a non-empty history, the row is left as it was; and
\* init() always ends with the conversation active and the idle timer armed.
C31_InitKeepsStoredHistory ==
    [][\A w \in Workers :
          /\ (InitWrites(w) /\ row.present /\ ~row.hnull /\ row.history # <<>>)
                => row' = row
          /\ InitEnds(w) => (active'[w] /\ timer'[w] = "pending")]_vars

\* C32: when loadIfNotActive() replays a durable row that holds the history
\* H, the in-memory history is H: the same entries in the same order, each
\* once, whatever broadcasts were received before.
C32_LoadedHistoryIsRow ==
    [][\A w \in Workers :
          (loads[w].pc = "cached" /\ loads'[w].pc = "replay") =>
              \E now \in Clock : history'[w] = LoadFromDatabase(row.history, now)]_vars

\* The call in slot c of worker w is still in its retry loop, and a reset()
\* that completed meanwhile has cleared the lock the call had taken.
ResetWhileInLoop(w, c) ==
    calls[w][c].pc \in {"transport", "backoff"} /\ ~generating[w]

\* C33: a generate() that is in flight when reset() completes is discarded:
\* it goes on to no moderation, push, broadcast or durable write, its only
\* way out is to throw, and it leaves the history and the durable row alone.
C33_ResetDiscardsGeneration ==
    [][\A w \in Workers, c \in Calls :
          (ResetWhileInLoop(w, c) /\ calls'[w][c] # calls[w][c]) =>
              /\ calls'[w][c].pc \in {"backoff", "thrown"}
              /\ ~calls'[w][c].pushed]_vars

\* C34: worker 1 has generated and then completed a reset() before the
\* generate() of worker 2 was started; what worker 2 then writes to the
\* durable row or broadcasts holds no entry of worker 1's generation.
C34_ResetIsClusterWide ==
    calls[2][1].pc # "idle" =>
        /\ \A i \in DOMAIN row.history : row.history[i].id # GenId(1, 1)
        /\ \A m \in msgs : m.from = 2 =>
              \A i \in DOMAIN m.history : m.history[i].output.id # GenId(1, 1)

\* C35: a conversation never has more than one idle timeout scheduled, and
\* has one exactly when its timer handle is that of a timeout still to fire:
\* whatever arms a timer has cancelled the one armed before.
C35_OnePendingTimer ==
    \A w \in Workers :
        /\ timeouts[w] \in {0, 1}
        /\ timeouts[w] = 1 <=> timer[w] = "pending"

\* Worker 1's timer has fired once and nothing is left scheduled there;
\* worker 2, whose timer was re-armed by a broadcast and by its own
\* generate(), has exactly one timeout scheduled.
C35_Witness ==
    /\ deleted[1] = 1 /\ timeouts[1] = 0
    /\ calls[2][1].pc = "returned"
    /\ Len(history[2]) = 2
    /\ timeouts[2] = 1

SummaryEnded == summarizer.pc \in {"returned", "thrown"}

\* C36: buildSummarizerPrompt terminates; it returns a prompt of at most 4000
\* counted tokens, or throws a generation error of type Length, and throws
\* exactly when the prompt exceeds 4000 tokens with no subtitle left to remove;
\* it takes at most as many truncation steps as it was given subtitles.
C36_SummarizerTerminates ==
    /\ [](/\ summarizer.steps <= Len(summarizer.initial)
          /\ summarizer.pc = "returned" =>
                /\ summarizer.tokens <= 4000
                /\ summarizer.tokens = countChatMessageTokens(summarizer.messages)
          /\ summarizer.pc = "thrown" =>
                /\ summarizer.error = GenError("Length", "none")
                /\ summarizer.subtitles = <<>>
                /\ summarizer.system > 4000
          /\ (SummaryEnded /\ summarizer.system > 4000) => summarizer.pc = "thrown")
    /\ <>SummaryEnded

\* Every subtitle was removed, in as many steps as there were subtitles, and
\* the instructions alone are over the limit: the call has thrown.
C36_Witness ==
    /\ summarizer.pc = "thrown"
    /\ Len(summarizer.initial) = MaxSubtitles
    /\ summarizer.steps = MaxSubtitles

\* C37: a truncation step removes the oldest subtitle, the first of the
\* remaining list, so that the prompt keeps the most recent subtitles in
\* their order.
C37_DropsOldest ==
    [][summarizer'.steps # summarizer.steps =>
          summarizer'.subtitles = Tail(summarizer.subtitles)]_vars

\* The invocation gives, for some option, a value that run() refuses: not
\* among the choices, a premium choice for a user without premium, or one
\* the autocomplete option does not accept.
Offending ==
    \E i \in DOMAIN SettingsOptions :
        LET option == SettingsOptions[i]
            value == settings.given[option.key]
        IN  /\ value # NotGiven
            /\ \/ option.type = "choice" /\ value \notin {"free", "premium"}
               \/ option.type = "choice" /\ value = "premium" /\ ~settings.premium
               \/ option.type = "autocomplete" /\ value \notin {"free", "premium"}

\* The options given with a value that differs from the stored one.
Differing ==
    {<<k, settings.given[k]>> : k \in
        {o \in OptionKeys : settings.given[o] # NotGiven
                              /\ settings.given[o] # settings.before[o]}}

\* C38: /settings applies all or nothing. With an offending option no apply
\* call is made and no stored setting changes; otherwise there is one apply
\* call, with exactly the options whose given value differs from the stored
\* one, and none when nothing differs.
C38_SettingsAllOrNothing ==
    settings.pc \in {"apply", "returned"} =>
        IF Offending \/ Differing = {}
        THEN settings.applied = <<>> /\ settings.stored = settings.before
        ELSE /\ settings.applied = <<Differing>>
             /\ settings.pc = "returned" =>
                   \A k \in OptionKeys :
                       settings.stored[k] =
                           IF settings.given[k] # NotGiven THEN settings.given[k]
                           ELSE settings.before[k]

\* A new, valid tone was given and, after it, a language the option does not
\* accept: the command returned its error and applied nothing, the tone
\* included.
C38_Witness ==
    /\ settings.pc = "returned"
    /\ settings.response = "invalid"
    /\ settings.given["tone"] = "free" /\ settings.before["tone"] = "premium"
    /\ settings.given["language"] = "bad"
    /\ settings.applied = <<>>
    /\ settings.stored = settings.before

====
